---------------------------- MODULE Spec2Model ----------------------------
(***************************************************************************)
(* Syn-Syu core: the AUR client (aur.rs: batching, admission gate, retry   *)
(* loop, merge of the batch results) and the manifest reconciliation       *)
(* (manifest.rs: resolve_package over the vercmp comparator of pacman.rs). *)
(*                                                                         *)
(* Spec         the concurrent run of AurClient::fetch_versions, for a     *)
(*              client with the rate limit off (max_kib_per_sec = 0) and   *)
(*              a service whose entries carry CompressedSize: on a decoded *)
(*              payload fetch_chunk neither sleeps nor probes a size.      *)
(* ResolveSpec  resolve_package applied to bounded inputs                  *)
(* ManifestSpec build_manifest over bounded installed lists and maps, with *)
(*              vercmp runs that may fail                                  *)
(* BackoffSpec  fetch_versions for one batch and up to MaxBackoffRetries   *)
(*              tries                                                      *)
(* ThrottleSpec enforce_rate_limit applied to bounded caps and sizes       *)
(* ProgramSpec  fetch_versions as run() calls it, under fair scheduling:   *)
(*              an error ends main and with it the runtime                 *)
(* ClientSpec   AurClient::new applied to bounded configurations           *)
(* CallSpec     query_repo_versions and fetch_versions called with name    *)
(*              lists that may be empty                                    *)
(* RunSpec      run() from the selected packages to the call of            *)
(*              fetch_versions                                             *)
(* ProbeSpec    fetch_versions for one batch, with the rate limit on or    *)
(*              off and entries that may lack CompressedSize or URLPath:   *)
(*              fetch_chunk with its rate-limit sleeps and size probes     *)
(* GateSpec     the same fetch_chunk for up to three batches of one name   *)
(* FairGateSpec GateSpec for one or two batches, under fair scheduling     *)
(***************************************************************************)
EXTENDS Integers, Sequences, FiniteSets, TLC

(***************************************************************************)
(* Bounds of the model.                                                    *)
(***************************************************************************)
MaxPackages == 2
MaxArgs == 2
MaxRetries == 2
MaxParallel == 2
MaxVersion == 4
MaxSize == 2
MaxInstalled == 2
MaxWord == 2097151
MaxBackoffRetries == 10

VARIABLES
    client,         \* AurClient: max_args, max_retries, max_parallel_requests
    packages,       \* fetch_versions: the name list passed in
    fv_pc,          \* fetch_versions: "entry" | "join" | "returned"
    chunks,         \* fetch_versions: the batches
    semaphore,      \* available permits of the admission gate
    tasks,          \* one spawned task per batch
    next_task,      \* fetch_versions: index of the task awaited next
    versions,       \* fetch_versions: the mapping under construction
    ret,            \* fetch_versions: the value returned to the caller
    rp_pc,          \* resolve_package: "call" | "done" | "twice" | "idle"
    package,        \* resolve_package: the InstalledPackage
    repo_info,      \* resolve_package: Option<&VersionInfo> of the repo
    aur_info,       \* resolve_package: Option<&VersionInfo> of the AUR
    vercmp_fails,   \* the vercmp runs of resolve_package that fail
    resolved,       \* resolve_package: Result<ManifestEntry>
    resolved_again, \* resolve_package: the result of a second call
    bm_pc,          \* build_manifest: "loop" | "done" | "idle"
    installed,      \* build_manifest: the installed packages
    repo_versions,  \* build_manifest: name -> VersionInfo of the repos
    aur_versions,   \* build_manifest: name -> VersionInfo of the AUR
    bm,             \* build_manifest: loop position, entries and counters
    document,       \* build_manifest: Result<ManifestDocument>
    rl_pc,          \* enforce_rate_limit: "call" | "done" | "idle"
    content_length, \* enforce_rate_limit: Option<u64>, the payload size
    slept_ms,       \* enforce_rate_limit: the sleep taken, None for no sleep
    aur_config,     \* AurClient::new: the AurConfig passed in
    constructed,    \* AurClient::new: "pending" | "ok" | "err" | "idle"
    query,          \* query_repo_versions: its argument, locals and result
    run             \* run(): position, flags, selected packages, calls made

fetch_vars == <<client, packages, fv_pc, chunks, semaphore, tasks, next_task,
                versions, ret>>
resolve_vars == <<rp_pc, package, repo_info, aur_info, vercmp_fails, resolved,
                  resolved_again>>
rate_vars == <<rl_pc, content_length, slept_ms>>
new_vars == <<aur_config, constructed>>
query_vars == <<query>>
run_vars == <<run>>
manifest_vars == <<bm_pc, installed, repo_versions, aur_versions, bm, document>>
vars == <<client, packages, fv_pc, chunks, semaphore, tasks, next_task,
          versions, ret, rp_pc, package, repo_info, aur_info, vercmp_fails,
          resolved, resolved_again, bm_pc, installed, repo_versions, aur_versions, bm,
          document, rl_pc, content_length, slept_ms, aur_config, constructed,
          query, run>>

(***************************************************************************)
(* Option<T>: None is the empty set, Some(x) the singleton.                *)
(***************************************************************************)
None == {}
Some(x) == {x}
Unwrap(o) == CHOOSE x \in o : TRUE
Option(S) == {None} \cup {Some(x) : x \in S}

Range(s) == {s[i] : i \in 1..Len(s)}

(***************************************************************************)
(* HashMap<String, VersionInfo>: a function from the keys present.         *)
(***************************************************************************)
EmptyMap == [k \in {} |-> 0]

\* An extend that keeps the value of a key already present.
ExtendKeepFirst(map, chunk_map) ==
    [k \in DOMAIN map \cup DOMAIN chunk_map |->
        IF k \in DOMAIN map THEN map[k] ELSE chunk_map[k]]

\* HashMap::extend: every pair of chunk_map is inserted, replacing the value
\* of a key already present.
Extend(map, chunk_map) ==
    [k \in DOMAIN map \cup DOMAIN chunk_map |->
        IF k \in DOMAIN chunk_map THEN chunk_map[k] ELSE map[k]]

\* HashMap::get
Get(map, name) == IF name \in DOMAIN map THEN Some(map[name]) ELSE None

(***************************************************************************)
(* Package names are opaque: 1..MaxPackages are the names a caller may     *)
(* pass, Foreign is a name no caller passes.                               *)
(***************************************************************************)
PackageNames == 1..MaxPackages
Foreign == 0

\* The VersionInfo built from an entry of the response to batch i. Records are
\* opaque to the client; those of different batches differ. The entry carries
\* its CompressedSize, so download_size is taken from it.
Record(i) == [version |-> i]

(***************************************************************************)
(* AurClient::new: each parameter is floored at 1.                         *)
(***************************************************************************)
\* A floor that also cuts every value down to 1.
ExactlyOne(n) == 1

AtLeastOne(n) == IF n < 1 THEN 1 ELSE n

new(config) ==
    [max_args |-> AtLeastOne(config.max_args),
     max_retries |-> AtLeastOne(config.max_retries),
     max_parallel_requests |-> AtLeastOne(config.max_parallel_requests),
     max_kib_per_sec |-> config.max_kib_per_sec]

AurConfigs ==
    [max_args : 0..MaxArgs, max_retries : 0..MaxRetries,
     max_parallel_requests : 0..MaxParallel, max_kib_per_sec : {0}]

\* The client before AurClient::new has returned one.
NoClient ==
    [max_args |-> 0, max_retries |-> 0, max_parallel_requests |-> 0,
     max_kib_per_sec |-> 0]

\* AurClient::new: the HTTP client is built or the builder fails; a built
\* client takes its parameters from the configuration.
NewClient ==
    /\ constructed = "pending"
    /\ \E builder_ok \in BOOLEAN :
          IF builder_ok
          THEN client' = new(aur_config) /\ constructed' = "ok"
          ELSE client' = client /\ constructed' = "err"
    /\ UNCHANGED <<aur_config, packages, fv_pc, chunks, semaphore, tasks,
                   next_task, versions, ret, resolve_vars, manifest_vars,
                   rate_vars, query_vars, run_vars>>

NewIdle ==
    /\ aur_config = NoClient
    /\ constructed = "idle"

(***************************************************************************)
(* slice::chunks(n): consecutive pieces of n elements, the last one        *)
(* shorter when n does not divide the length.                              *)
(***************************************************************************)
RECURSIVE ChunksDropRemainder(_, _)
ChunksDropRemainder(s, n) ==
    IF Len(s) < n THEN <<>>
    ELSE <<SubSeq(s, 1, n)>> \o ChunksDropRemainder(SubSeq(s, n + 1, Len(s)), n)

RECURSIVE Chunks(_, _)
Chunks(s, n) ==
    IF s = <<>> THEN <<>>
    ELSE IF Len(s) <= n THEN <<s>>
    ELSE <<SubSeq(s, 1, n)>> \o Chunks(SubSeq(s, n + 1, Len(s)), n)

(***************************************************************************)
(* Responses of the remote endpoint to the GET of one batch.               *)
(***************************************************************************)
OK == 200
Created == 201
ServiceUnavailable == 503
Statuses == {OK, Created, ServiceUnavailable}

\* StatusCode::is_success: the 2xx range.
is_success(status) == status >= 200 /\ status < 300

\* payload.results of a response to batch i, as the name -> record pairs it
\* yields; the service decides which names it answers for.
ResultMaps(i, chunk) ==
    {[k \in S |-> Record(i)] : S \in SUBSET (Range(chunk) \cup {Foreign})}

Responses(i, chunk) ==
    {[transport |-> FALSE, status |-> OK, body |-> "results", results |-> m] :
        m \in ResultMaps(i, chunk)}
    \cup
    {[transport |-> FALSE, status |-> s, body |-> b, results |-> EmptyMap] :
        s \in {OK, Created}, b \in {"malformed", "error"}}
    \cup
    {[transport |-> FALSE, status |-> ServiceUnavailable, body |-> "malformed",
      results |-> EmptyMap],
     [transport |-> TRUE, status |-> 0, body |-> "none", results |-> EmptyMap]}

NoResponse == [transport |-> FALSE, status |-> 0, body |-> "none", results |-> EmptyMap]

(***************************************************************************)
(* Result<HashMap<..>> of a batch task and of fetch_versions.              *)
(***************************************************************************)
Pending == [kind |-> "pending", map |-> EmptyMap, variant |-> "", cause |-> "",
            status |-> 0, url |-> <<>>]
Ok(m) == [kind |-> "ok", map |-> m, variant |-> "", cause |-> "", status |-> 0,
          url |-> <<>>]
Err(variant, cause, status, url) ==
    [kind |-> "err", map |-> EmptyMap, variant |-> variant, cause |-> cause,
     status |-> status, url |-> url]

\* compose_url: the URL names the batch's packages in order.
compose_url(chunk) == chunk

(***************************************************************************)
(* The admission gate: tokio Semaphore, acquire_owned and the drop of the  *)
(* permit when the task's future completes.                                *)
(***************************************************************************)
AlwaysAdmit(permits) == TRUE

CanAcquire(permits) == permits > 0

KeepPermit(permits) == permits

Release(permits) == permits + 1

(***************************************************************************)
(* fetch_chunk, from a response to the next suspension point or return.    *)
(***************************************************************************)
\* response.status() == StatusCode::OK
(***************************************************************************)
(* u64 arithmetic, on a word of MaxWord + 1 values.                        *)
(***************************************************************************)
Words == 0..MaxWord

\* u64::saturating_mul
saturating_mul(a, b) ==
    IF b # 0 /\ a > MaxWord \div b THEN MaxWord ELSE a * b

\* u64::wrapping_add
wrapping_add(a, b) == (a + b) % (MaxWord + 1)

\* u64::saturating_add
saturating_add(a, b) == IF a > MaxWord - b THEN MaxWord ELSE a + b

\* A test no status passes.
StatusNeverOk(status) == FALSE

StatusIsOk(status) == status = OK

\* A test that lets one more request through.
ExhaustedOneLater(attempt, max_retries) == attempt > max_retries

\* attempt >= self.max_retries, tested after attempt += 1
RetriesExhausted(attempt, max_retries) == attempt >= max_retries

\* response.json::<AurResponse>(), the check of payload.error and, with
\* enforce_rate_limit returning at once (max_kib_per_sec = 0), the map built
\* from payload.results.
DecodeLenient(resp, url) ==
    IF resp.body = "malformed" THEN Ok(EmptyMap)
    ELSE IF resp.body = "error" THEN Err("Network", "aur_error", 0, url)
    ELSE Ok(resp.results)

Decode(resp, url) ==
    IF resp.body = "malformed" THEN Err("Serialization", "decode", 0, <<>>)
    ELSE IF resp.body = "error" THEN Err("Network", "aur_error", 0, url)
    ELSE Ok(resp.results)

\* 1_u64 << exponent
RECURSIVE Shl(_, _)
Shl(x, exponent) == IF exponent = 0 THEN x ELSE Shl(2 * x, exponent - 1)

Min(a, b) == IF a < b THEN a ELSE b

BackoffBaseMillis == 200
MaxExponent == 8

\* The backoff with the exponent left uncapped.
BackoffUncapped(attempt) ==
    saturating_mul(BackoffBaseMillis, Shl(1, attempt))

\* Duration::from_millis(200_u64.saturating_mul(1_u64 << exponent)) with
\* exponent = (attempt as u32).min(8), in milliseconds
Backoff(attempt) ==
    saturating_mul(BackoffBaseMillis, Shl(1, Min(attempt, MaxExponent)))

\* sent, slept, delays, last and all_failed record what the task did: GETs
\* sent, backoff sleeps started and their lengths, the latest response, and
\* whether every response so far carried a non-success status.
\* entries and results are the loop over payload.results; decoded, naps and
\* heads record that a payload was decoded, the rate-limit sleeps started and
\* the size probes sent, each with the entry it was sent for and its response.
NewTask == [pc |-> "acquire", attempt |-> 0, sent |-> 0, slept |-> 0,
            delays |-> <<>>, last |-> NoResponse, all_failed |-> TRUE,
            result |-> Pending, decoded |-> FALSE, entries |-> <<>>,
            results |-> EmptyMap, header_size |-> None, naps |-> 0,
            heads |-> <<>>]

\* A retry sent with the response, without the sleep.
ResendAtOnce(r, t) ==
    [r EXCEPT !.pc = "get", !.attempt = t.attempt + 1, !.sent = t.sent + 1]

\* attempt += 1 and sleep(backoff).await: the task r sleeps before it
\* goes round the loop.
Sleeping(r, t) ==
    [r EXCEPT !.pc = "backoff", !.attempt = t.attempt + 1,
              !.slept = t.slept + 1,
              !.delays = Append(t.delays, Backoff(t.attempt + 1))]

\* The task after it has received resp for its outstanding GET.
OnResponse(t, resp, url, max_retries) ==
    LET r == [t EXCEPT !.last = resp,
                       !.all_failed = /\ t.all_failed
                                      /\ ~resp.transport
                                      /\ ~is_success(resp.status)]
    IN  IF resp.transport
        THEN [r EXCEPT !.pc = "done",
                       !.result = Err("Network", "transport", 0, url)]
        ELSE IF StatusIsOk(resp.status)
        THEN [r EXCEPT !.pc = "done", !.result = Decode(resp, url)]
        ELSE IF RetriesExhausted(t.attempt + 1, max_retries)
        THEN [r EXCEPT !.pc = "done", !.attempt = t.attempt + 1,
                       !.result = Err("Network", "status", resp.status, url)]
        ELSE Sleeping(r, t)

(***************************************************************************)
(* fetch_versions                                                          *)
(***************************************************************************)
\* Entry: the empty list returns at once; otherwise the batches are cut, the
\* gate is created and one task per batch is spawned.
FetchVersionsEntry ==
    /\ fv_pc = "entry"
    /\ IF packages = <<>>
       THEN /\ fv_pc' = "returned"
            /\ ret' = Ok(EmptyMap)
            /\ UNCHANGED <<chunks, semaphore, tasks>>
       ELSE /\ fv_pc' = "join"
            /\ chunks' = Chunks(packages, client.max_args)
            /\ semaphore' = client.max_parallel_requests
            /\ tasks' = [i \in 1..Len(chunks') |-> NewTask]
            /\ ret' = ret
    /\ UNCHANGED <<client, packages, next_task, versions, resolve_vars, manifest_vars,
                   rate_vars, new_vars, query_vars,
                   run_vars>>

\* A spawned task gets its permit and sends the first GET of its batch.
Acquire(i) ==
    /\ tasks[i].pc = "acquire"
    /\ CanAcquire(semaphore)
    /\ semaphore' = semaphore - 1
    /\ tasks' = [tasks EXCEPT ![i].pc = "get", ![i].sent = 1]
    /\ UNCHANGED <<client, packages, fv_pc, chunks, next_task, versions, ret,
                   resolve_vars, manifest_vars,
                   rate_vars, new_vars, query_vars,
                   run_vars>>

\* The outstanding GET of task i completes with resp; the task runs to its
\* return (dropping the permit) or to the backoff sleep.
Respond(i, resp) ==
    /\ tasks[i].pc = "get"
    /\ LET t == OnResponse(tasks[i], resp, compose_url(chunks[i]),
                           client.max_retries)
       IN  /\ tasks' = [tasks EXCEPT ![i] = t]
           /\ semaphore' = IF t.pc = "done" THEN Release(semaphore)
                           ELSE semaphore
    /\ UNCHANGED <<client, packages, fv_pc, chunks, next_task, versions, ret,
                   resolve_vars, manifest_vars,
                   rate_vars, new_vars, query_vars,
                   run_vars>>

\* The backoff sleep of task i ends and the GET is sent again.
BackoffElapsed(i) ==
    /\ tasks[i].pc = "backoff"
    /\ tasks' = [tasks EXCEPT ![i].pc = "get", ![i].sent = tasks[i].sent + 1]
    /\ UNCHANGED <<client, packages, fv_pc, chunks, semaphore, next_task,
                   versions, ret, resolve_vars, manifest_vars,
                   rate_vars, new_vars, query_vars,
                   run_vars>>

\* What the join loop does with the result of the task it awaited: an Err
\* returns it, an Ok map is merged.
JoinBestEffort(result, map) ==
    IF result.kind = "err" THEN [stop |-> FALSE, map |-> map, ret |-> Pending]
    ELSE [stop |-> FALSE, map |-> Extend(map, result.map), ret |-> Pending]

JoinStep(result, map) ==
    IF result.kind = "err" THEN [stop |-> TRUE, map |-> map, ret |-> result]
    ELSE [stop |-> FALSE, map |-> Extend(map, result.map), ret |-> Pending]

\* task.await yields at once, whether the task has returned or not.
ReadyAtOnce(t) == TRUE

\* task.await yields once the spawned task has returned.
Ready(t) == t.pc = "done"

\* fetch_versions awaits the tasks in spawn order.
Join ==
    /\ fv_pc = "join"
    /\ next_task <= Len(chunks)
    /\ Ready(tasks[next_task])
    /\ LET step == JoinStep(tasks[next_task].result, versions)
       IN  /\ versions' = step.map
           /\ next_task' = next_task + 1
           /\ IF step.stop
              THEN fv_pc' = "returned" /\ ret' = step.ret
              ELSE IF next_task = Len(chunks)
              THEN fv_pc' = "returned" /\ ret' = Ok(step.map)
              ELSE fv_pc' = "join" /\ ret' = ret
    /\ UNCHANGED <<client, packages, chunks, semaphore, tasks, resolve_vars, manifest_vars,
                   rate_vars, new_vars, query_vars,
                   run_vars>>

(***************************************************************************)
(* pacman.rs: compare_versions runs vercmp, which orders version strings   *)
(* and prints a negative number, 0 or a positive number. Versions are      *)
(* opaque strings 1..MaxVersion; different strings may be of equal order.  *)
(***************************************************************************)
Versions == 1..MaxVersion

\* The order vercmp gives a version string: 2 and 3 are equal in order.
VersionOrder(v) == v \div 2

vercmp(a, b) == VersionOrder(a) - VersionOrder(b)

\* compare_versions with a failed run read as Ordering::Equal.
compare_or_equal(local, remote, fails) ==
    IF vercmp(local, remote) < 0 THEN "Less"
    ELSE IF vercmp(local, remote) = 0 \/ fails THEN "Equal"
    ELSE "Greater"

\* Ok(ordering.cmp(&0)), or the error of a vercmp run that fails (spawn
\* error, non-zero exit, unparsable output).
compare_versions(local, remote, fails) ==
    IF fails THEN "Err"
    ELSE IF vercmp(local, remote) < 0 THEN "Less"
    ELSE IF vercmp(local, remote) = 0 THEN "Equal"
    ELSE "Greater"

(***************************************************************************)
(* manifest.rs: resolve_package                                            *)
(***************************************************************************)
\* The three places where resolve_package runs the comparator.
VercmpRuns == {"repo_cmp", "aur_cmp", "repo_vs_aur"}

Sizes == 1..MaxSize
VersionInfos ==
    [version : Versions, download_size : Option(Sizes),
     installed_size : Option(Sizes)]
InstalledPackages ==
    [name : {1}, version : Versions, repository : Option({"local", "core"})]

AurAheadNote == "AUR ahead of repo, but repo chosen per policy"

\* cmp == std::cmp::Ordering::Less
NotNewer(cmp) == cmp # "Greater"

IsLess(cmp) == cmp = "Less"

\* The arm Ordering::Greater | Ordering::Equal of the match on repo_vs_aur.
RepoAheadOnly(repo_vs_aur) == repo_vs_aur = "Greater"

RepoChosen(repo_vs_aur) == repo_vs_aur \in {"Greater", "Equal"}

\* if aur_cmp == Ordering::Greater { notes = Some(..) }
NoteAttached(aur_cmp) == aur_cmp = "Greater"

\* update_available = <cmp of the chosen record> == Ordering::Less
UpdateFromOther(chosen_cmp, other_cmp) == IsLess(other_cmp)

UpdateFrom(chosen_cmp, other_cmp) == IsLess(chosen_cmp)

\* The arm (None, _, None, _): Local for repository "local", else Unknown.
NoSourceAlwaysLocal(pkg) == "Local"

\* A tag that depends on whether a call has been made before.
NoSourceByHistory(pkg) ==
    IF resolved.kind = "pending" THEN "Unknown" ELSE "Local"

NoSourceAlwaysUnknown(pkg) == "Unknown"

NoSource(pkg) == IF pkg.repository = Some("local") THEN "Local" ELSE "Unknown"

\* match source { Pacman => repo sizes, Aur => aur sizes, _ => None }
SelectedFirstPresent(source, from_repo, from_aur) ==
    IF from_repo # None THEN from_repo ELSE from_aur

Selected(source, from_repo, from_aur) ==
    IF source = "Pacman" THEN from_repo
    ELSE IF source = "Aur" THEN from_aur ELSE None

\* repo_info.and_then(|info| info.download_size)
DownloadSize(info) == UNION {i.download_size : i \in info}
InstalledSize(info) == UNION {i.installed_size : i \in info}

\* The decision of the match: source, target_version, update_available, notes.
Decide(pkg, repo, aur, repo_cmp, aur_cmp, repo_vs_aur) ==
    IF repo # None /\ repo_cmp # None /\ aur = None
    THEN [source |-> "Pacman", target_version |-> Unwrap(repo).version,
          update_available |-> IsLess(Unwrap(repo_cmp)), notes |-> None]
    ELSE IF repo = None /\ aur # None /\ aur_cmp # None
    THEN [source |-> "Aur", target_version |-> Unwrap(aur).version,
          update_available |-> IsLess(Unwrap(aur_cmp)), notes |-> None]
    ELSE IF repo # None /\ repo_cmp # None /\ aur # None /\ aur_cmp # None
    THEN IF RepoChosen(repo_vs_aur)
         THEN [source |-> "Pacman", target_version |-> Unwrap(repo).version,
               update_available |->
                   UpdateFrom(Unwrap(repo_cmp), Unwrap(aur_cmp)),
               notes |-> IF NoteAttached(Unwrap(aur_cmp))
                         THEN Some(AurAheadNote) ELSE None]
         ELSE [source |-> "Aur", target_version |-> Unwrap(aur).version,
               update_available |->
                   UpdateFrom(Unwrap(aur_cmp), Unwrap(repo_cmp)),
               notes |-> None]
    ELSE IF repo = None /\ aur = None
    THEN [source |-> NoSource(pkg),
          target_version |-> pkg.version, update_available |-> FALSE,
          notes |-> None]
    ELSE IF repo # None
    THEN [source |-> "Pacman", target_version |-> Unwrap(repo).version,
          update_available |-> FALSE, notes |-> None]
    ELSE [source |-> "Aur", target_version |-> Unwrap(aur).version,
          update_available |-> FALSE, notes |-> None]

\* The ManifestEntry built from the decision and the size fields.
Entry(pkg, repo, aur, d) ==
    LET download_repo == DownloadSize(repo)
        installed_repo == InstalledSize(repo)
        download_aur == DownloadSize(aur)
        installed_aur == InstalledSize(aur)
    IN  [installed_version |-> pkg.version,
         version_repo |-> {i.version : i \in repo},
         version_aur |-> {i.version : i \in aur},
         newer_version |-> d.target_version,
         source |-> d.source,
         update_available |-> d.update_available,
         notes |-> d.notes,
         download_size_repo |-> download_repo,
         installed_size_repo |-> installed_repo,
         download_size_aur |-> download_aur,
         installed_size_aur |-> installed_aur,
         download_size_selected |->
             Selected(d.source, download_repo, download_aur),
         installed_size_selected |->
             Selected(d.source, installed_repo, installed_aur)]

NoEntry == [source |-> "none"]

\* Each `?` returns the comparator's error before anything later is evaluated.
resolve_package(pkg, repo, aur, failing) ==
    LET repo_cmp == {compare_versions(pkg.version, i.version,
                                      "repo_cmp" \in failing) : i \in repo}
        aur_cmp == {compare_versions(pkg.version, i.version,
                                     "aur_cmp" \in failing) : i \in aur}
        both == repo # None /\ aur # None
        repo_vs_aur ==
            IF both
            THEN compare_versions(Unwrap(repo).version, Unwrap(aur).version,
                                  "repo_vs_aur" \in failing)
            ELSE "Equal"
    IN  IF repo_cmp = Some("Err") THEN [kind |-> "err", entry |-> NoEntry]
        ELSE IF aur_cmp = Some("Err") THEN [kind |-> "err", entry |-> NoEntry]
        ELSE IF both /\ repo_vs_aur = "Err"
        THEN [kind |-> "err", entry |-> NoEntry]
        ELSE [kind |-> "ok",
              entry |-> Entry(pkg, repo, aur,
                              Decide(pkg, repo, aur, repo_cmp, aur_cmp,
                                     repo_vs_aur))]

NotResolved == [kind |-> "pending", entry |-> NoEntry]

\* One call of resolve_package.
ResolvePackage ==
    /\ rp_pc = "call"
    /\ resolved' = resolve_package(package, repo_info, aur_info, vercmp_fails)
    /\ rp_pc' = "done"
    /\ UNCHANGED <<package, repo_info, aur_info, vercmp_fails, resolved_again,
                   fetch_vars, manifest_vars, rate_vars, new_vars, query_vars,
                   run_vars>>

\* A second call with the same arguments and the same vercmp answers.
ResolveAgain ==
    /\ rp_pc = "done"
    /\ resolved_again' =
           resolve_package(package, repo_info, aur_info, vercmp_fails)
    /\ rp_pc' = "twice"
    /\ UNCHANGED <<package, repo_info, aur_info, vercmp_fails, resolved,
                   fetch_vars, manifest_vars, rate_vars, new_vars, query_vars,
                   run_vars>>

(***************************************************************************)
(* pacman.rs: query_repo_versions runs `pacman -Si` on pieces of the name  *)
(* list and collects the records it prints.                                *)
(***************************************************************************)
CHUNK_SIZE == 64

\* The VersionInfo parsed for a name of the sync databases.
RepoRecord == [version |-> 1]

\* What a run of pacman -Si on a piece yields: it cannot be spawned, exits
\* with a failure, prints invalid UTF-8, or prints blocks from which the
\* records of some of the names are read.
PacmanOutcomes(chunk) ==
    {[kind |-> k, map |-> EmptyMap] :
        k \in {"spawn_error", "exit_failure", "invalid_utf8"}}
    \cup {[kind |-> "ok", map |-> [n \in S |-> RepoRecord]] :
            S \in SUBSET Range(chunk)}

\* The state of a call before its first statement.
QueryCall(names) ==
    [pc |-> "call", packages |-> names, chunks |-> <<>>, next |-> 1,
     versions |-> EmptyMap, spawned |-> 0, ret |-> Pending]

\* An entry that hands the whole list to one run of pacman, empty or not.
QueryEntryUnchecked(q) == [q EXCEPT !.pc = "loop", !.chunks = <<q.packages>>]

\* Entry: the empty list returns the empty mapping at once, otherwise the
\* list is cut into pieces of CHUNK_SIZE names.
QueryEntry(q) ==
    IF q.packages = <<>>
    THEN [q EXCEPT !.pc = "returned", !.ret = Ok(EmptyMap)]
    ELSE [q EXCEPT !.pc = "loop", !.chunks = Chunks(q.packages, CHUNK_SIZE)]

\* One turn of the loop: pacman is spawned on the piece and its outcome
\* either ends the call with an error or adds its records.
QueryChunk(q, outcome) ==
    LET spawned == [q EXCEPT !.spawned = q.spawned + 1] IN
    IF outcome.kind # "ok"
    THEN [spawned EXCEPT !.pc = "returned",
                         !.ret = Err("CommandFailure", outcome.kind, 0, <<>>)]
    ELSE [spawned EXCEPT !.next = q.next + 1,
                         !.versions = Extend(q.versions, outcome.map)]

QueryRepoVersionsEntry ==
    /\ query.pc = "call"
    /\ query' = QueryEntry(query)
    /\ UNCHANGED <<fetch_vars, resolve_vars, manifest_vars, rate_vars,
                   new_vars, run_vars>>

QueryRepoVersionsChunk ==
    /\ query.pc = "loop"
    /\ query.next <= Len(query.chunks)
    /\ \E outcome \in PacmanOutcomes(query.chunks[query.next]) :
          query' = QueryChunk(query, outcome)
    /\ UNCHANGED <<fetch_vars, resolve_vars, manifest_vars, rate_vars,
                   new_vars, run_vars>>

QueryRepoVersionsReturn ==
    /\ query.pc = "loop"
    /\ query.next > Len(query.chunks)
    /\ query' = [query EXCEPT !.pc = "returned", !.ret = Ok(query.versions)]
    /\ UNCHANGED <<fetch_vars, resolve_vars, manifest_vars, rate_vars,
                   new_vars, run_vars>>

QueryIdle == query = [QueryCall(<<>>) EXCEPT !.pc = "idle"]

(***************************************************************************)
(* main.rs: run(), from the selection of the packages to the call of       *)
(* fetch_versions.                                                         *)
(***************************************************************************)
Names(selected) == [i \in DOMAIN selected |-> selected[i].name]

\* The names of the selected packages in a repository other than "local".
RepoCandidates(selected) ==
    LET in_repo(pkg) == pkg.repository # None
                        /\ pkg.repository # Some("local")
    IN  Names(SelectSeq(selected, in_repo))

\* Every selected name, with or without a record.
AllSelected(selected, repo_versions_) == Names(selected)

\* The names of the selected packages without a record in repo_versions.
AurCandidates(selected, repo_versions_) ==
    LET absent(pkg) == Get(repo_versions_, pkg.name) = None
    IN  Names(SelectSeq(selected, absent))

NewRun(selected, no_repo, no_aur) ==
    [pc |-> "start", selected |-> selected, no_repo |-> no_repo,
     no_aur |-> no_aur, repo_versions |-> EmptyMap, calls |-> <<>>,
     ret |-> "pending"]

\* The checks before the sources are asked: both sources disabled is an
\* error, an empty selection ends the run.
RunStart ==
    /\ run.pc = "start"
    /\ run' = IF run.no_aur /\ run.no_repo
              THEN [run EXCEPT !.pc = "done", !.ret = "err"]
              ELSE IF run.selected = <<>>
              THEN [run EXCEPT !.pc = "done", !.ret = "ok"]
              ELSE [run EXCEPT !.pc = "repo"]
    /\ UNCHANGED <<fetch_vars, resolve_vars, manifest_vars, rate_vars,
                   new_vars, query_vars>>

\* repo_versions: empty with --no-repo or without candidates, else the
\* call of query_repo_versions.
RunRepo ==
    /\ run.pc = "repo"
    /\ LET repo_candidates == RepoCandidates(run.selected) IN
       IF run.no_repo \/ repo_candidates = <<>>
       THEN /\ run' = [run EXCEPT !.pc = "aur"]
            /\ query' = query
       ELSE /\ run' = [run EXCEPT !.pc = "repo_await",
                                  !.calls = Append(@, "query_repo_versions")]
            /\ query' = QueryCall(repo_candidates)
    /\ UNCHANGED <<fetch_vars, resolve_vars, manifest_vars, rate_vars,
                   new_vars>>

\* query_repo_versions(&repo_candidates).await?
RunRepoReturned ==
    /\ run.pc = "repo_await"
    /\ query.pc = "returned"
    /\ run' = IF query.ret.kind = "err"
              THEN [run EXCEPT !.pc = "done", !.ret = "err"]
              ELSE [run EXCEPT !.pc = "aur", !.repo_versions = query.ret.map]
    /\ UNCHANGED <<fetch_vars, resolve_vars, manifest_vars, rate_vars,
                   new_vars, query_vars>>

\* aur_versions: empty with --no-aur or without candidates, else the client
\* is built and fetch_versions called with the candidates.
RunAur ==
    /\ run.pc = "aur"
    /\ LET aur_candidates == AurCandidates(run.selected, run.repo_versions) IN
       IF run.no_aur \/ aur_candidates = <<>>
       THEN /\ run' = [run EXCEPT !.pc = "manifest"]
            /\ UNCHANGED <<client, constructed, packages, fv_pc>>
       ELSE \E builder_ok \in BOOLEAN :
               IF builder_ok
               THEN /\ client' = new(aur_config)
                    /\ constructed' = "ok"
                    /\ packages' = aur_candidates
                    /\ fv_pc' = "entry"
                    /\ run' = [run EXCEPT !.pc = "fetch",
                                          !.calls = Append(@, "fetch_versions")]
               ELSE /\ constructed' = "err"
                    /\ run' = [run EXCEPT !.pc = "done", !.ret = "err"]
                    /\ UNCHANGED <<client, packages, fv_pc>>
    /\ UNCHANGED <<aur_config, chunks, semaphore, tasks, next_task, versions,
                   ret, resolve_vars, manifest_vars, rate_vars, query_vars>>

RunIdle == run = [NewRun(<<>>, FALSE, FALSE) EXCEPT !.pc = "idle"]

(***************************************************************************)
(* manifest.rs: build_manifest                                             *)
(***************************************************************************)
InstalledNames == {1, 2}

\* The installed list: names may repeat.
ManifestPackages ==
    [name : InstalledNames, version : {1, MaxVersion},
     repository : {Some("core")}]

InstalledLists == UNION {[1..n -> ManifestPackages] : n \in 0..MaxInstalled}

\* A download size is absent or one short of the largest u64: two of them
\* exceed the word.
ManifestInfos ==
    [version : {1, MaxVersion}, download_size : Option({MaxWord - 1}),
     installed_size : {None}]

\* HashMap<String, VersionInfo> over the installed names
VersionMaps == UNION {[D -> ManifestInfos] : D \in SUBSET InstalledNames}

\* An insert that drops the entries of the other names.
InsertAlone(entries, name, entry) == [k \in {name} |-> entry]

\* BTreeMap::insert: a later entry of the same name replaces the earlier one.
Insert(entries, name, entry) ==
    [k \in DOMAIN entries \cup {name} |->
        IF k = name THEN entry ELSE entries[k]]

\* The comparisons resolve_package runs for these records.
PerformedRuns(repo, aur) ==
    (IF repo # None THEN {"repo_cmp"} ELSE {})
    \cup (IF aur # None THEN {"aur_cmp"} ELSE {})
    \cup (IF repo # None /\ aur # None THEN {"repo_vs_aur"} ELSE {})

\* The locals of build_manifest before the loop.
NewManifest ==
    [index |-> 1, entries |-> EmptyMap, repo_candidates |-> 0,
     aur_candidates |-> 0, updates_available |-> 0, download_total |-> 0]

NoDocument == [kind |-> "pending"]

\* ManifestMetadata without the time stamp.
Metadata(m, total) ==
    [generated_by |-> "synsyu_core", total_packages |-> total,
     repo_candidates |-> m.repo_candidates,
     aur_candidates |-> m.aur_candidates,
     updates_available |-> m.updates_available,
     download_size_total |-> m.download_total]

\* The counters after the look-ups of one iteration.
Counted(m, repo, aur) ==
    [m EXCEPT !.repo_candidates = @ + (IF repo # None THEN 1 ELSE 0),
              !.aur_candidates = @ + (IF aur # None THEN 1 ELSE 0)]

\* The locals after an entry has been resolved.
Recorded(m, name, entry) ==
    [m EXCEPT !.index = @ + 1,
              !.entries = Insert(@, name, entry),
              !.updates_available =
                  @ + (IF entry.update_available THEN 1 ELSE 0),
              !.download_total =
                  IF entry.update_available
                     /\ entry.download_size_selected # None
                  THEN saturating_add(@, Unwrap(entry.download_size_selected))
                  ELSE @]

\* One iteration of the loop; the vercmp runs it performs may fail.
BuildManifestStep ==
    /\ bm_pc = "loop"
    /\ bm.index <= Len(installed)
    /\ LET pkg == installed[bm.index]
           repo == Get(repo_versions, pkg.name)
           aur == Get(aur_versions, pkg.name)
       IN  \E failing \in Option(PerformedRuns(repo, aur)) :
              LET r == resolve_package(pkg, repo, aur, failing) IN
              /\ package' = pkg
              /\ repo_info' = repo
              /\ aur_info' = aur
              /\ vercmp_fails' = failing
              /\ resolved' = r
              /\ rp_pc' = "done"
              /\ IF r.kind = "err"
                 THEN /\ bm' = Counted(bm, repo, aur)
                      /\ bm_pc' = "done"
                      /\ document' = [kind |-> "err"]
                 ELSE /\ bm' = Recorded(Counted(bm, repo, aur), pkg.name,
                                        r.entry)
                      /\ UNCHANGED <<bm_pc, document>>
    /\ UNCHANGED <<installed, repo_versions, aur_versions, resolved_again,
                   fetch_vars, rate_vars, new_vars, query_vars,
                   run_vars>>

\* After the loop: Ok(ManifestDocument { metadata, packages: entries })
BuildManifestReturn ==
    /\ bm_pc = "loop"
    /\ bm.index > Len(installed)
    /\ document' = [kind |-> "ok",
                    metadata |-> Metadata(bm, Len(installed)),
                    packages |-> bm.entries]
    /\ bm_pc' = "done"
    /\ UNCHANGED <<installed, repo_versions, aur_versions, bm, resolve_vars,
                   fetch_vars, rate_vars, new_vars, query_vars,
                   run_vars>>

ManifestIdle ==
    /\ bm_pc = "idle"
    /\ installed = <<>>
    /\ repo_versions = EmptyMap
    /\ aur_versions = EmptyMap
    /\ bm = NewManifest
    /\ document = NoDocument

(***************************************************************************)
(* aur.rs: enforce_rate_limit and throttle_delay                           *)
(***************************************************************************)
BytesPerKib == 1024
MillisPerSec == 1000

\* throttle_delay with the division rounding down.
throttle_delay_floor(bytes, kib_per_sec) ==
    IF kib_per_sec = 0 THEN None
    ELSE LET denominator == saturating_mul(kib_per_sec, BytesPerKib) IN
         IF denominator = 0 THEN None
         ELSE LET millis == saturating_mul(bytes, MillisPerSec) \div denominator
              IN  IF millis = 0 THEN None ELSE Some(millis)

\* Option<Duration>, in milliseconds
throttle_delay(bytes, kib_per_sec) ==
    IF kib_per_sec = 0 THEN None
    ELSE LET denominator == saturating_mul(kib_per_sec, BytesPerKib) IN
         IF denominator = 0 THEN None
         ELSE LET millis ==
                      saturating_add(saturating_mul(bytes, MillisPerSec),
                                     denominator - 1) \div denominator
              IN  IF millis = 0 THEN None ELSE Some(millis)

\* The sleep enforce_rate_limit takes, None when it returns without one.
enforce_rate_limit(self, length) ==
    IF self.max_kib_per_sec = 0 THEN None
    ELSE IF length = None THEN None
    ELSE throttle_delay(Unwrap(length), self.max_kib_per_sec)

\* One call of enforce_rate_limit.
EnforceRateLimit ==
    /\ rl_pc = "call"
    /\ slept_ms' = enforce_rate_limit(client, content_length)
    /\ rl_pc' = "done"
    /\ UNCHANGED <<content_length, fetch_vars, resolve_vars, manifest_vars,
                   new_vars, query_vars, run_vars>>

\* Caps and payload sizes around the values where the u64 products reach
\* the end of the word.
RateCaps == {0, 1, 2, 3, 1000, 2047, 2048, 4096}

PayloadSizes ==
    {0, 1, 1023, 1024, 1025, 2048, 2097, 2098, 2100, 100000, MaxWord}

(***************************************************************************)
(* aur.rs: fetch_chunk with the rate limit and the size probes. A task     *)
(* that has decoded a payload sleeps in enforce_rate_limit ("throttle"),   *)
(* goes through payload.results, waits for the response to a HEAD          *)
(* ("head"), sleeps in the enforce_rate_limit of fetch_tarball_size        *)
(* ("head_throttle") and returns Ok(results).                              *)
(***************************************************************************)
MaxEntries == 2

\* What is left alone by a step of a spawned task.
spawner_vars == <<client, packages, fv_pc, chunks, next_task, versions, ret>>

\* Option::or
Or(a, b) == IF a # None THEN a ELSE b

\* VersionInfo::new
VersionInfo(version, download_size, installed_size) ==
    [version |-> version, download_size |-> download_size,
     installed_size |-> installed_size]

\* AurEntry, for the names a response to batch i may carry.
AurEntries(i, names) ==
    [name : names, version : {i}, url_path : Option({"path"}),
     compressed_size : Option({1}), installed_size : {None}]

\* Sequences of at most n elements of S.
SeqUpTo(S, n) == UNION {[1..k -> S] : k \in 0..n}

\* The responses to the GET of batch i with their Content-Length and, for a
\* decoded payload, at most n entries.
ChunkResponses(i, chunk, n) ==
    {[transport |-> FALSE, status |-> OK, body |-> "results",
      results |-> EmptyMap, content_length |-> len, entries |-> es] :
        len \in Option({2048}), es \in SeqUpTo(AurEntries(i, Range(chunk)), n)}
    \cup
    {[transport |-> r.transport, status |-> r.status, body |-> r.body,
      results |-> EmptyMap, content_length |-> None, entries |-> <<>>] :
        r \in {x \in Responses(i, chunk) : x.body # "results"}}

\* The part of a response the retry loop looks at.
Core(resp) ==
    [transport |-> resp.transport, status |-> resp.status, body |-> resp.body,
     results |-> resp.results]

\* The responses to a HEAD: a transport error, or a status, the length of
\* the body as reqwest reports it and the text of the Content-Length header
\* (an integer for its decimal numeral, None for a missing header).
HeadResponses ==
    {[transport |-> TRUE, status |-> 0, content_length |-> None,
      header |-> None]}
    \cup
    [transport : {FALSE}, status : {OK, ServiceUnavailable},
     content_length : Option({0}), header : Option({-1, 2048, MaxWord + 1})]

\* value.parse::<u64>().ok()
parse_u64(value) == IF value \in Words THEN Some(value) ELSE None

\* headers().get(CONTENT_LENGTH) ... .and_then(parse)
HeaderSize(head) ==
    IF head.header = None THEN None ELSE parse_u64(Unwrap(head.header))

\* send().await.ok()? and the test of is_success: the probe gives None.
ProbeGivesUp(head) == head.transport \/ ~is_success(head.status)

\* fetch_tarball_size: the Option<u64> it returns
fetch_tarball_size(head) ==
    IF ProbeGivesUp(head) THEN None ELSE HeaderSize(head)

\* The sleep fetch_tarball_size takes in enforce_rate_limit.
ProbeSleep(self, head) ==
    IF ProbeGivesUp(head) THEN None
    ELSE enforce_rate_limit(self, Or(head.content_length, HeaderSize(head)))

\* A match that probes every entry.
EveryEntry(entry) == TRUE

\* match (entry.compressed_size, entry.url_path): the arm (None, Some(path))
NeedsProbe(entry) == entry.compressed_size = None /\ entry.url_path # None

\* results.insert for the head of t.entries with the download size given.
Inserted(t, download_size) ==
    LET entry == Head(t.entries) IN
    [t EXCEPT !.entries = Tail(t.entries),
              !.header_size = None,
              !.results = Insert(t.results, entry.name,
                                 VersionInfo(entry.version, download_size,
                                             entry.installed_size))]

\* for entry in payload.results: up to the HEAD of the next probe, or to
\* return Ok(results).
RECURSIVE EntriesLoop(_)
EntriesLoop(t) ==
    IF t.entries = <<>>
    THEN [t EXCEPT !.pc = "done", !.result = Ok(t.results)]
    ELSE IF NeedsProbe(Head(t.entries))
    THEN [t EXCEPT !.pc = "head"]
    ELSE EntriesLoop(Inserted(t, Head(t.entries).compressed_size))

\* fetch_chunk from the response to its GET: the retry loop as in OnResponse
\* and, for a decoded payload without error, enforce_rate_limit(content_len)
\* and the loop over the entries.
OnChunkResponse(t, resp, url, self) ==
    LET r == OnResponse(t, Core(resp), url, self.max_retries) IN
    IF r.pc = "done" /\ r.result.kind = "ok"
    THEN LET d == [r EXCEPT !.result = Pending, !.decoded = TRUE,
                            !.last = resp, !.entries = resp.entries]
         IN  IF enforce_rate_limit(self, resp.content_length) # None
             THEN [d EXCEPT !.pc = "throttle", !.naps = t.naps + 1]
             ELSE EntriesLoop(d)
    ELSE r

\* fetch_chunk from the response to the HEAD of a probe.
OnHeadResponse(t, head, self) ==
    LET r == [t EXCEPT !.heads = Append(t.heads, [entry |-> Head(t.entries),
                                                  head |-> head])]
    IN  IF ProbeSleep(self, head) # None
        THEN [r EXCEPT !.pc = "head_throttle", !.naps = t.naps + 1,
                       !.header_size = fetch_tarball_size(head)]
        ELSE EntriesLoop(Inserted(r, fetch_tarball_size(head)))

\* A permit given back whenever the task stops waiting for a response.
ReturnedOrAsleep(t) == t.pc \in {"done", "throttle", "head_throttle"}

\* fetch_chunk has returned: the future of the task completes and _permit
\* is dropped.
Returned(t) == t.pc = "done"

\* The GET of task i completes with resp.
ChunkResponse(i, resp) ==
    /\ tasks[i].pc = "get"
    /\ LET t == OnChunkResponse(tasks[i], resp, compose_url(chunks[i]), client)
       IN  /\ tasks' = [tasks EXCEPT ![i] = t]
           /\ semaphore' = IF Returned(t) THEN Release(semaphore)
                           ELSE semaphore
    /\ UNCHANGED <<spawner_vars, resolve_vars, manifest_vars, rate_vars,
                   new_vars, query_vars, run_vars>>

\* The sleep of enforce_rate_limit ends: after the payload the loop over the
\* entries starts, inside fetch_tarball_size the probed size is returned.
RateLimitElapsed(i) ==
    /\ tasks[i].pc \in {"throttle", "head_throttle"}
    /\ LET t == IF tasks[i].pc = "throttle" THEN EntriesLoop(tasks[i])
                ELSE EntriesLoop(Inserted(tasks[i], tasks[i].header_size))
       IN  /\ tasks' = [tasks EXCEPT ![i] = t]
           /\ semaphore' = IF Returned(t) THEN Release(semaphore)
                           ELSE semaphore
    /\ UNCHANGED <<spawner_vars, resolve_vars, manifest_vars, rate_vars,
                   new_vars, query_vars, run_vars>>

\* The HEAD of task i completes with head.
HeadResponse(i, head) ==
    /\ tasks[i].pc = "head"
    /\ LET t == OnHeadResponse(tasks[i], head, client)
       IN  /\ tasks' = [tasks EXCEPT ![i] = t]
           /\ semaphore' = IF Returned(t) THEN Release(semaphore)
                           ELSE semaphore
    /\ UNCHANGED <<spawner_vars, resolve_vars, manifest_vars, rate_vars,
                   new_vars, query_vars, run_vars>>

RateIdle ==
    /\ rl_pc = "idle"
    /\ content_length = None
    /\ slept_ms = None

ResolveIdle ==
    /\ rp_pc = "idle"
    /\ package = [name |-> 1, version |-> 1, repository |-> None]
    /\ repo_info = None
    /\ aur_info = None
    /\ vercmp_fails = None
    /\ resolved = NotResolved
    /\ resolved_again = NotResolved

FetchIdle ==
    /\ client = new([max_args |-> 1, max_retries |-> 1,
                     max_parallel_requests |-> 1, max_kib_per_sec |-> 0])
    /\ packages = <<>>
    /\ fv_pc = "idle"
    /\ chunks = <<>>
    /\ semaphore = 0
    /\ tasks = <<>>
    /\ next_task = 1
    /\ versions = EmptyMap
    /\ ret = Pending

Init ==
    /\ client \in {new(c) : c \in AurConfigs}
    /\ packages \in {[i \in 1..n |-> i] : n \in 0..MaxPackages}
    /\ fv_pc = "entry"
    /\ chunks = <<>>
    /\ semaphore = 0
    /\ tasks = <<>>
    /\ next_task = 1
    /\ versions = EmptyMap
    /\ ret = Pending
    /\ ResolveIdle
    /\ ManifestIdle
    /\ RateIdle
    /\ NewIdle
    /\ QueryIdle
    /\ RunIdle

Next ==
    \/ FetchVersionsEntry
    \/ \E i \in DOMAIN tasks : Acquire(i)
    \/ \E i \in DOMAIN tasks : \E resp \in Responses(i, chunks[i]) :
            Respond(i, resp)
    \/ \E i \in DOMAIN tasks : BackoffElapsed(i)
    \/ Join

Spec == Init /\ [][Next]_vars

(***************************************************************************)
(* main.rs: run() hands the error of fetch_versions to main with `?`, main *)
(* returns the exit code and the tokio runtime of #[tokio::main] is        *)
(* dropped: the tasks that have not returned are dropped at the await they *)
(* are suspended at.                                                       *)
(***************************************************************************)
Dropped(t) == IF t.pc = "done" THEN t ELSE [t EXCEPT !.pc = "cancelled"]

RuntimeShutdown ==
    /\ fv_pc = "returned"
    /\ ret.kind = "err"
    /\ \E i \in DOMAIN tasks : tasks[i].pc \notin {"done", "cancelled"}
    /\ tasks' = [i \in DOMAIN tasks |-> Dropped(tasks[i])]
    /\ UNCHANGED <<client, packages, fv_pc, chunks, semaphore, next_task,
                   versions, ret, resolve_vars, manifest_vars, rate_vars, new_vars, query_vars,
                   run_vars>>

ProgramNext == Next \/ RuntimeShutdown

\* The runtime polls every task that can make progress, and every request
\* gets a response or a transport error.
TaskFairness(i) ==
    /\ WF_vars(i \in DOMAIN tasks /\ Acquire(i))
    /\ WF_vars(/\ i \in DOMAIN tasks
               /\ \E resp \in Responses(i, chunks[i]) : Respond(i, resp))
    /\ WF_vars(i \in DOMAIN tasks /\ BackoffElapsed(i))

\* The clients that send one name per batch, at most twice.
ProgramInit ==
    /\ Init
    /\ client.max_args = 1
    /\ client.max_retries <= 2

ProgramSpec ==
    /\ ProgramInit
    /\ [][ProgramNext]_vars
    /\ \A i \in 1..MaxPackages : TaskFairness(i)
    /\ WF_vars(Join)

\* fetch_versions for one batch of one or two names, with the rate limit on
\* or off and a service whose entries may lack CompressedSize, URLPath or
\* both.
ProbeInit ==
    /\ client \in {new([max_args |-> 2, max_retries |-> 2,
                        max_parallel_requests |-> 1, max_kib_per_sec |-> k]) :
                   k \in {0, 1}}
    /\ packages \in {<<1>>, <<1, 2>>}
    /\ fv_pc = "entry"
    /\ chunks = <<>>
    /\ semaphore = 0
    /\ tasks = <<>>
    /\ next_task = 1
    /\ versions = EmptyMap
    /\ ret = Pending
    /\ ResolveIdle
    /\ ManifestIdle
    /\ RateIdle
    /\ NewIdle
    /\ QueryIdle
    /\ RunIdle

ProbeNext ==
    \/ FetchVersionsEntry
    \/ \E i \in DOMAIN tasks : Acquire(i)
    \/ \E i \in DOMAIN tasks :
          /\ tasks[i].pc = "get"
          /\ \E resp \in ChunkResponses(i, chunks[i], MaxEntries) :
                ChunkResponse(i, resp)
    \/ \E i \in DOMAIN tasks : BackoffElapsed(i)
    \/ \E i \in DOMAIN tasks : RateLimitElapsed(i)
    \/ \E i \in DOMAIN tasks : \E head \in HeadResponses :
            HeadResponse(i, head)
    \/ Join

ProbeSpec == ProbeInit /\ [][ProbeNext]_vars

\* fetch_versions for up to three batches of one name, with the rate limit
\* on.
GateInit ==
    /\ client \in {new([max_args |-> 1, max_retries |-> 2,
                        max_parallel_requests |-> p, max_kib_per_sec |-> 1]) :
                   p \in 1..MaxParallel}
    /\ packages \in {<<1>>, <<1, 2>>, <<1, 2, 3>>}
    /\ fv_pc = "entry"
    /\ chunks = <<>>
    /\ semaphore = 0
    /\ tasks = <<>>
    /\ next_task = 1
    /\ versions = EmptyMap
    /\ ret = Pending
    /\ ResolveIdle
    /\ ManifestIdle
    /\ RateIdle
    /\ NewIdle
    /\ QueryIdle
    /\ RunIdle

\* The responses of a service that answers a GET with a transport error, a
\* 503 or a payload of at most one entry, which has a URLPath.
GateResponses(i, chunk) ==
    {r \in ChunkResponses(i, chunk, 1) :
        /\ r.transport \/ r.status = ServiceUnavailable \/ r.body = "results"
        /\ \A k \in DOMAIN r.entries : r.entries[k].url_path # None}

\* The responses to a HEAD that carry no body length: a transport error or
\* a 200, with or without a Content-Length header.
GateHeadResponses ==
    {h \in HeadResponses :
        /\ h.transport \/ h.status = OK
        /\ h.content_length = None
        /\ h.header \in {None, Some(2048)}}

GateNext ==
    \/ FetchVersionsEntry
    \/ \E i \in DOMAIN tasks : Acquire(i)
    \/ \E i \in DOMAIN tasks :
          /\ tasks[i].pc = "get"
          /\ \E resp \in GateResponses(i, chunks[i]) : ChunkResponse(i, resp)
    \/ \E i \in DOMAIN tasks : BackoffElapsed(i)
    \/ \E i \in DOMAIN tasks : RateLimitElapsed(i)
    \/ \E i \in DOMAIN tasks : \E head \in GateHeadResponses :
            HeadResponse(i, head)
    \/ Join

GateSpec == GateInit /\ [][GateNext]_vars

\* The runtime polls every task that can make progress, every GET and HEAD
\* gets a response or a transport error, and every sleep ends.
ChunkFairness(i) ==
    /\ WF_vars(i \in DOMAIN tasks /\ Acquire(i))
    /\ WF_vars(/\ i \in DOMAIN tasks
               /\ tasks[i].pc = "get"
               /\ \E resp \in GateResponses(i, chunks[i]) :
                     ChunkResponse(i, resp))
    /\ WF_vars(i \in DOMAIN tasks /\ BackoffElapsed(i))
    /\ WF_vars(i \in DOMAIN tasks /\ RateLimitElapsed(i))
    /\ WF_vars(/\ i \in DOMAIN tasks
               /\ \E head \in GateHeadResponses : HeadResponse(i, head))

\* One or two batches.
FairGateInit ==
    /\ GateInit
    /\ Len(packages) <= 2

\* fetch_versions and its tasks on a runtime that keeps running.
FairGateSpec ==
    /\ FairGateInit
    /\ [][GateNext]_vars
    /\ \A i \in 1..2 : ChunkFairness(i)
    /\ WF_vars(FetchVersionsEntry)
    /\ WF_vars(Join)

ResolveInit ==
    /\ rp_pc = "call"
    /\ package \in InstalledPackages
    /\ repo_info \in Option(VersionInfos)
    /\ aur_info \in Option(VersionInfos)
    /\ vercmp_fails \in Option(VercmpRuns)
    /\ resolved = NotResolved
    /\ resolved_again = NotResolved
    /\ FetchIdle
    /\ ManifestIdle
    /\ RateIdle
    /\ NewIdle
    /\ QueryIdle
    /\ RunIdle

ResolveNext == ResolvePackage \/ ResolveAgain

ResolveSpec == ResolveInit /\ [][ResolveNext]_vars

\* One batch of one name, for clients of up to MaxBackoffRetries retries.
BackoffInit ==
    /\ client \in {new([max_args |-> 1, max_retries |-> n,
                        max_parallel_requests |-> 1, max_kib_per_sec |-> 0]) :
                   n \in 0..MaxBackoffRetries}
    /\ packages = <<1>>
    /\ fv_pc = "entry"
    /\ chunks = <<>>
    /\ semaphore = 0
    /\ tasks = <<>>
    /\ next_task = 1
    /\ versions = EmptyMap
    /\ ret = Pending
    /\ ResolveIdle
    /\ ManifestIdle
    /\ RateIdle
    /\ NewIdle
    /\ QueryIdle
    /\ RunIdle

BackoffSpec == BackoffInit /\ [][Next]_vars

ThrottleInit ==
    /\ client \in {new([max_args |-> 1, max_retries |-> 1,
                        max_parallel_requests |-> 1, max_kib_per_sec |-> k]) :
                   k \in RateCaps}
    /\ packages = <<>>
    /\ fv_pc = "idle"
    /\ chunks = <<>>
    /\ semaphore = 0
    /\ tasks = <<>>
    /\ next_task = 1
    /\ versions = EmptyMap
    /\ ret = Pending
    /\ rl_pc = "call"
    /\ content_length \in Option(PayloadSizes)
    /\ slept_ms = None
    /\ ResolveIdle
    /\ ManifestIdle
    /\ NewIdle
    /\ QueryIdle
    /\ RunIdle

ThrottleNext == EnforceRateLimit

ThrottleSpec == ThrottleInit /\ [][ThrottleNext]_vars

\* AurClient::new applied to bounded configurations.
ClientConfigs ==
    [max_args : 0..(MaxArgs + 1), max_retries : 0..(MaxRetries + 1),
     max_parallel_requests : 0..(MaxParallel + 1), max_kib_per_sec : {0, 1}]

ClientInit ==
    /\ aur_config \in ClientConfigs
    /\ constructed = "pending"
    /\ client = NoClient
    /\ packages = <<>>
    /\ fv_pc = "idle"
    /\ chunks = <<>>
    /\ semaphore = 0
    /\ tasks = <<>>
    /\ next_task = 1
    /\ versions = EmptyMap
    /\ ret = Pending
    /\ ResolveIdle
    /\ ManifestIdle
    /\ RateIdle
    /\ QueryIdle
    /\ RunIdle

ClientNext == NewClient

ClientSpec == ClientInit /\ [][ClientNext]_vars

\* query_repo_versions and fetch_versions, each called with a name list
\* that may be empty; the client sends one batch at a time.
NameLists == {[i \in 1..n |-> i] : n \in 0..MaxPackages}

CallInit ==
    /\ query \in {QueryCall(names) : names \in NameLists}
    /\ client = new([max_args |-> MaxArgs, max_retries |-> MaxRetries,
                     max_parallel_requests |-> 1, max_kib_per_sec |-> 0])
    /\ packages \in NameLists
    /\ fv_pc = "entry"
    /\ chunks = <<>>
    /\ semaphore = 0
    /\ tasks = <<>>
    /\ next_task = 1
    /\ versions = EmptyMap
    /\ ret = Pending
    /\ ResolveIdle
    /\ ManifestIdle
    /\ RateIdle
    /\ NewIdle
    /\ RunIdle

CallNext ==
    \/ QueryRepoVersionsEntry
    \/ QueryRepoVersionsChunk
    \/ QueryRepoVersionsReturn
    \/ Next

CallSpec == CallInit /\ [][CallNext]_vars

\* The selected packages: sorted by name, no name twice.
SelectedLists ==
    {sel \in UNION {[1..n -> [name : 1..MaxPackages, version : {1},
                               repository : Option({"local", "core"})]] :
                      n \in 0..MaxPackages} :
        \A i \in 1..(Len(sel) - 1) : sel[i].name < sel[i + 1].name}

RunInit ==
    /\ run \in {NewRun(sel, no_repo, no_aur) :
                  sel \in SelectedLists, no_repo \in BOOLEAN,
                  no_aur \in BOOLEAN}
    /\ aur_config \in [max_args : {0, MaxArgs}, max_retries : {1},
                        max_parallel_requests : {1}, max_kib_per_sec : {0}]
    /\ constructed = "pending"
    /\ FetchIdle
    /\ ResolveIdle
    /\ ManifestIdle
    /\ RateIdle
    /\ QueryIdle

RunNext ==
    \/ RunStart
    \/ RunRepo
    \/ QueryRepoVersionsEntry
    \/ QueryRepoVersionsChunk
    \/ QueryRepoVersionsReturn
    \/ RunRepoReturned
    \/ RunAur

RunSpec == RunInit /\ [][RunNext]_vars

ManifestInit ==
    /\ bm_pc = "loop"
    /\ installed \in InstalledLists
    /\ repo_versions \in VersionMaps
    /\ aur_versions \in VersionMaps
    /\ bm = NewManifest
    /\ document = NoDocument
    /\ ResolveIdle
    /\ FetchIdle
    /\ RateIdle
    /\ NewIdle
    /\ QueryIdle
    /\ RunIdle

ManifestNext == BuildManifestStep \/ BuildManifestReturn

ManifestSpec == ManifestInit /\ [][ManifestNext]_vars

(***************************************************************************)
(* Properties of fetch_versions (checked under Spec)                       *)
(***************************************************************************)
Started == fv_pc \in {"join", "returned"} /\ packages # <<>>

\* A task holds a permit from its acquire to its return.
HoldsPermit(t) == t.pc \in {"get", "backoff"}

InFlight == Cardinality({i \in DOMAIN tasks : HoldsPermit(tasks[i])})

AllTasksDone == \A i \in DOMAIN tasks : tasks[i].pc = "done"

\* C1: in every reachable state the number of batches in flight (holding a
\* permit) is at most max_parallel_requests.
C1_AdmissionGate == InFlight <= client.max_parallel_requests

\* C1 witness: the gate is full, one batch sleeps in backoff and another
\* batch waits for a permit.
C1_GateFull ==
    /\ InFlight = client.max_parallel_requests
    /\ \E i \in DOMAIN tasks : tasks[i].pc = "backoff"
    /\ \E i \in DOMAIN tasks : tasks[i].pc = "acquire"

\* C2: the batches of a non-empty list of distinct names each hold between 1
\* and max_batch_size names, together hold exactly the input names, and no
\* name is in two batches or twice in one batch.
C2_BatchesPartition ==
    Started =>
        /\ \A i \in DOMAIN chunks :
              /\ Len(chunks[i]) >= 1
              /\ Len(chunks[i]) <= client.max_args
              /\ Cardinality(Range(chunks[i])) = Len(chunks[i])
        /\ UNION {Range(chunks[i]) : i \in DOMAIN chunks} = Range(packages)
        /\ \A i, j \in DOMAIN chunks :
              i # j => Range(chunks[i]) \cap Range(chunks[j]) = {}

\* C2 witness: the list does not divide evenly, the last batch is shorter.
C2_ShortLastBatch ==
    /\ Started
    /\ Len(chunks) >= 1
    /\ Len(chunks[Len(chunks)]) < client.max_args

\* C3 (as claimed): a batch whose every response had a non-success status
\* ends after max_retries retries, max_retries + 1 requests in all, with a
\* Network error carrying the final status and the URL and no results.
C3_RetriesAfterFirstRequest ==
    \A i \in DOMAIN tasks :
        LET t == tasks[i] IN
        (t.pc = "done" /\ t.all_failed)
        => /\ t.sent = client.max_retries + 1
           /\ t.slept = client.max_retries
           /\ t.result = Err("Network", "status", t.last.status,
                             compose_url(chunks[i]))

\* The value fetch_versions would return if it merged every batch: each key
\* maps to the record of the last batch, in spawn order, that yielded it.
MergedResults ==
    LET holders(k) == {i \in DOMAIN tasks : k \in DOMAIN tasks[i].result.map}
        last_of(k) == CHOOSE i \in holders(k) : \A j \in holders(k) : j <= i
    IN  [k \in UNION {DOMAIN tasks[i].result.map : i \in DOMAIN tasks} |->
            tasks[last_of(k)].result.map[k]]

\* C4: fetch_versions returns the merge of every batch's results or an error
\* without a mapping; it returns an error whenever a batch has failed.
C4_CompleteOrError ==
    fv_pc = "returned" =>
        /\ ret.kind \in {"ok", "err"}
        /\ ret.kind = "ok" =>
              /\ \A i \in DOMAIN tasks : tasks[i].result.kind = "ok"
              /\ ret.map = MergedResults
        /\ (\E i \in DOMAIN tasks : tasks[i].result.kind = "err") =>
              /\ ret.kind = "err"
              /\ ret.map = EmptyMap

\* C4 witness: an error was returned although another batch had succeeded
\* with records.
C4_ErrorDespiteResults ==
    /\ fv_pc = "returned"
    /\ ret.kind = "err"
    /\ \E i \in DOMAIN tasks :
          tasks[i].result.kind = "ok" /\ tasks[i].result.map # EmptyMap

\* What C5 asks of a task whose latest response is resp.
EndsAtOnce(t, resp) ==
    /\ t.pc = "done"
    /\ t.result.kind = "err"
    /\ resp.body = "malformed" => t.result.variant = "Serialization"
    /\ resp.body = "error" =>
          t.result.variant = "Network" /\ t.result.cause = "aur_error"

BadBody(resp) == ~resp.transport /\ resp.body \in {"malformed", "error"}

\* C5 (as claimed): a response with an HTTP success status whose body is
\* malformed or carries an error field ends the batch at once with an error:
\* no further request, no backoff sleep.
C5_SuccessStatusBadBodyEnds ==
    \A i \in DOMAIN tasks :
        (BadBody(tasks[i].last) /\ is_success(tasks[i].last.status))
        => EndsAtOnce(tasks[i], tasks[i].last)

\* C5 (amended): a response with status 200 OK whose body is malformed or
\* carries an error field ends the batch at once with an error (Serialization
\* for a malformed body, Network for an error field): no further request, no
\* backoff sleep.
C5_OkStatusBadBodyEnds ==
    \A i \in DOMAIN tasks :
        (BadBody(tasks[i].last) /\ tasks[i].last.status = 200)
        => EndsAtOnce(tasks[i], tasks[i].last)

\* C5 witness: with retries left, one batch ended on a malformed 200 body
\* and another on a 200 body with an error field.
C5_BothBadBodies ==
    /\ client.max_retries >= 2
    /\ \E i, j \in DOMAIN tasks :
          /\ tasks[i].last.status = 200 /\ tasks[i].last.body = "malformed"
          /\ tasks[i].attempt = 0 /\ tasks[i].pc = "done"
          /\ tasks[j].last.status = 200 /\ tasks[j].last.body = "error"
          /\ tasks[j].attempt = 0 /\ tasks[j].pc = "done"

\* C6 (as claimed): a transport failure is retried like a non-success status;
\* it reaches the caller only once the batch has used up its requests.
C6_TransportFailureRetried ==
    \A i \in DOMAIN tasks :
        (tasks[i].pc = "done" /\ tasks[i].last.transport)
        => tasks[i].sent >= client.max_retries

\* C7 (as claimed): every key of a returned mapping is a name of the input
\* list.
C7_OnlyRequestedKeys ==
    (fv_pc = "returned" /\ ret.kind = "ok")
    => DOMAIN ret.map \subseteq Range(packages)

\* C8: no exit path of a batch task keeps its permit: the free permits are
\* max_parallel_requests less the batches in flight, and all of them once
\* every task has ended.
C8_NoPermitLeak ==
    Started =>
        /\ semaphore + InFlight = client.max_parallel_requests
        /\ AllTasksDone => semaphore = client.max_parallel_requests

\* C8 witness: with one permit, a batch that ended early on a decode error
\* was followed by a batch that used up its retries.
C8_AllEndedDifferently ==
    /\ Started
    /\ AllTasksDone
    /\ client.max_parallel_requests = 1
    /\ \E i, j \in DOMAIN tasks :
          /\ tasks[i].result.cause = "decode"
          /\ tasks[j].result.cause = "status"
          /\ tasks[j].slept >= 1

(***************************************************************************)
(* Properties of resolve_package (checked under ResolveSpec)               *)
(***************************************************************************)
Produced == rp_pc = "done" /\ resolved.kind = "ok"

\* C9: with exactly one record present, the entry's source is that record's
\* source, newer_version its version, and update_available holds exactly
\* when vercmp orders the installed version strictly before it.
C9_SingleRecord ==
    Produced =>
        LET e == resolved.entry IN
        /\ (repo_info # None /\ aur_info = None) =>
              /\ e.source = "Pacman"
              /\ e.newer_version = Unwrap(repo_info).version
              /\ e.update_available
                    = (vercmp(package.version, Unwrap(repo_info).version) < 0)
        /\ (repo_info = None /\ aur_info # None) =>
              /\ e.source = "Aur"
              /\ e.newer_version = Unwrap(aur_info).version
              /\ e.update_available
                    = (vercmp(package.version, Unwrap(aur_info).version) < 0)

\* C9 witness: only the AUR has a record, which is newer than the installed
\* version.
C9_AurOnlyUpdate ==
    /\ Produced
    /\ repo_info = None
    /\ aur_info # None
    /\ resolved.entry.source = "Aur"
    /\ resolved.entry.update_available

\* C10 (as claimed): with both records present and equal in order, for every
\* installed version the source is Pacman, newer_version the repo version
\* and no note is attached.
C10_TieFavorsRepoWithoutNote ==
    (/\ Produced
     /\ repo_info # None
     /\ aur_info # None
     /\ vercmp(Unwrap(repo_info).version, Unwrap(aur_info).version) = 0)
    => /\ resolved.entry.source = "Pacman"
       /\ resolved.entry.newer_version = Unwrap(repo_info).version
       /\ resolved.entry.notes = None

BothPresent == repo_info # None /\ aur_info # None

\* C11: with both records present, a remote version strictly greater than
\* the primary one gives source Aur, newer_version the remote version and
\* update_available exactly when installed < remote; otherwise the source
\* is Pacman and newer_version the primary version.
C11_BothPresentChoice ==
    (Produced /\ BothPresent) =>
        LET e == resolved.entry
            repo == Unwrap(repo_info).version
            aur == Unwrap(aur_info).version
        IN  /\ vercmp(repo, aur) < 0 =>
                /\ e.source = "Aur"
                /\ e.newer_version = aur
                /\ e.update_available = (vercmp(package.version, aur) < 0)
            /\ vercmp(repo, aur) >= 0 =>
                /\ e.source = "Pacman"
                /\ e.newer_version = repo

\* C11 witness: the remote record is ahead of the primary one and of the
\* installed version.
C11_AurAheadChosen ==
    /\ Produced
    /\ BothPresent
    /\ vercmp(Unwrap(repo_info).version, Unwrap(aur_info).version) < 0
    /\ resolved.entry.source = "Aur"
    /\ resolved.entry.update_available

\* C12: with neither record present the source is Local for repository
\* "local" and Unknown otherwise, newer_version is the installed version,
\* update_available is false, there is no note and no selected size.
C12_NoRecord ==
    (Produced /\ repo_info = None /\ aur_info = None) =>
        LET e == resolved.entry IN
        /\ e.source = IF package.repository = Some("local")
                      THEN "Local" ELSE "Unknown"
        /\ e.newer_version = package.version
        /\ ~e.update_available
        /\ e.notes = None
        /\ e.download_size_selected = None
        /\ e.installed_size_selected = None

\* C12 witness: a package of another repository without any record.
C12_ForeignWithoutRecord ==
    /\ Produced
    /\ repo_info = None
    /\ aur_info = None
    /\ package.repository = Some("core")
    /\ resolved.entry.source = "Unknown"

\* The result for the same package when the record of the source that was
\* not chosen carries version v instead.
WithOtherVersion(v) ==
    IF resolved.entry.source = "Pacman"
    THEN resolve_package(package, repo_info,
                         {[i EXCEPT !.version = v] : i \in aur_info},
                         vercmp_fails)
    ELSE resolve_package(package,
                         {[i EXCEPT !.version = v] : i \in repo_info},
                         aur_info, vercmp_fails)

\* C13: update_available holds only when installed < newer_version, and a
\* different version of the record that was not chosen, as long as the same
\* source is chosen, leaves update_available as it is.
C13_UpdateFromChosenOnly ==
    Produced =>
        LET e == resolved.entry IN
        /\ e.update_available => vercmp(package.version, e.newer_version) < 0
        /\ e.source \in {"Pacman", "Aur"} =>
              \A v \in Versions :
                 LET other == WithOtherVersion(v) IN
                 (other.kind = "ok" /\ other.entry.source = e.source)
                    => other.entry.update_available = e.update_available

\* C13 witness: the primary record is chosen and the installed version lies
\* strictly between the remote and the primary version.
C13_OtherSourceDisagrees ==
    /\ Produced
    /\ BothPresent
    /\ resolved.entry.source = "Pacman"
    /\ resolved.entry.update_available
    /\ vercmp(package.version, Unwrap(aur_info).version) > 0

\* C14: the source is Unknown only if both records are absent and the
\* package's repository is not "local"; with a record present the source
\* is Pacman or Aur.
C14_UnknownOnlyWithoutRecords ==
    Produced =>
        /\ resolved.entry.source = "Unknown" =>
              /\ repo_info = None
              /\ aur_info = None
              /\ package.repository # Some("local")
        /\ (repo_info # None \/ aur_info # None) =>
              resolved.entry.source \in {"Pacman", "Aur"}

\* C14 witness: a package installed from the "local" repository without any
\* record is resolved.
C14_LocalWithoutRecord ==
    /\ Produced
    /\ repo_info = None
    /\ aur_info = None
    /\ package.repository = Some("local")
    /\ resolved.entry.source = "Local"

\* C15 (as claimed): the note is attached exactly when the primary source
\* is chosen with both records present and the remote version strictly
\* greater than the primary version.
C15_NoteIffAurAheadOfRepo ==
    Produced =>
        (resolved.entry.notes # None
            <=> /\ resolved.entry.source = "Pacman"
                /\ BothPresent
                /\ vercmp(Unwrap(repo_info).version,
                          Unwrap(aur_info).version) < 0)

\* C16: the per-source size fields are the sizes of the present records
\* whatever the source, the selected sizes are those of the chosen record
\* alone, and absent for Local and Unknown.
C16_SizesFromOwnSource ==
    Produced =>
        LET e == resolved.entry IN
        /\ e.download_size_repo = UNION {i.download_size : i \in repo_info}
        /\ e.installed_size_repo = UNION {i.installed_size : i \in repo_info}
        /\ e.download_size_aur = UNION {i.download_size : i \in aur_info}
        /\ e.installed_size_aur = UNION {i.installed_size : i \in aur_info}
        /\ e.source = "Pacman" =>
              /\ e.download_size_selected = Unwrap(repo_info).download_size
              /\ e.installed_size_selected = Unwrap(repo_info).installed_size
        /\ e.source = "Aur" =>
              /\ e.download_size_selected = Unwrap(aur_info).download_size
              /\ e.installed_size_selected = Unwrap(aur_info).installed_size
        /\ e.source \in {"Local", "Unknown"} =>
              /\ e.download_size_selected = None
              /\ e.installed_size_selected = None

\* C16 witness: both records are present with different sizes, the remote
\* one is chosen and lacks the download size the primary one has.
C16_AurChosenWithoutDownloadSize ==
    /\ Produced
    /\ BothPresent
    /\ resolved.entry.source = "Aur"
    /\ Unwrap(repo_info).download_size # None
    /\ Unwrap(aur_info).download_size = None
    /\ Unwrap(repo_info).installed_size # Unwrap(aur_info).installed_size

(***************************************************************************)
(* Properties of build_manifest                                            *)
(***************************************************************************)
\* A vercmp run of the last resolve_package call failed.
ComparatorFailed ==
    /\ rp_pc = "done"
    /\ vercmp_fails \cap PerformedRuns(repo_info, aur_info) # {}

\* C17: when a comparison that resolve_package performs fails,
\* resolve_package returns the error without an entry, and build_manifest
\* returns the error without a document, having inserted no entry for
\* the package.
C17_ComparatorFailurePropagates ==
    ComparatorFailed =>
        /\ resolved.kind = "err"
        /\ resolved.entry = NoEntry
        /\ bm_pc = "done"
        /\ document = [kind |-> "err"]
        /\ installed[bm.index] = package
        /\ \A k \in DOMAIN bm.entries :
              \E j \in 1..(bm.index - 1) : installed[j].name = k

\* C17 witness: the comparison of the repo version with the AUR version
\* fails for the second package, after the first one got its entry.
C17_ThirdComparisonFails ==
    /\ vercmp_fails = {"repo_vs_aur"}
    /\ bm.index = 2
    /\ DOMAIN bm.entries # {}
    /\ document.kind = "err"

(***************************************************************************)
(* Properties of the backoff                                               *)
(***************************************************************************)
RECURSIVE Pow2(_)
Pow2(n) == IF n = 0 THEN 1 ELSE 2 * Pow2(n - 1)

\* C18: the k-th backoff sleep of a batch lasts 200ms * 2^min(k,8); the
\* delays never decrease and none exceeds 51200ms.
C18_BackoffDoublesUpToCap ==
    \A i \in DOMAIN tasks :
        LET ds == tasks[i].delays IN
        /\ \A k \in DOMAIN ds :
              /\ ds[k] = 200 * Pow2(IF k < 8 THEN k ELSE 8)
              /\ ds[k] <= 51200
        /\ \A k \in 1..(Len(ds) - 1) : ds[k] <= ds[k + 1]

\* C18 witness: a batch has slept more than eight times, the last two
\* sleeps at the cap.
C18_SleptAtTheCap ==
    \E i \in DOMAIN tasks :
        /\ Len(tasks[i].delays) > 8
        /\ tasks[i].delays[8] = 51200
        /\ tasks[i].delays[9] = 51200

(***************************************************************************)
(* Properties of the rate limit                                            *)
(***************************************************************************)
\* ceil(n / d)
CeilDiv(n, d) == (n \div d) + (IF n % d = 0 THEN 0 ELSE 1)

\* The sleep taken, in milliseconds.
DelayMs == IF slept_ms = None THEN 0 ELSE Unwrap(slept_ms)

RateLimited == rl_pc = "done" /\ client.max_kib_per_sec > 0
                              /\ content_length # None

\* bytes * 1000 + kib_per_sec * 1024 - 1 fits the word.
FitsWord ==
    /\ client.max_kib_per_sec <= MaxWord \div 1024
    /\ Unwrap(content_length)
          <= (MaxWord - (client.max_kib_per_sec * 1024 - 1)) \div 1000

SomeBatchFailed ==
    \E i \in DOMAIN tasks : tasks[i].pc = "done" /\ tasks[i].result.kind = "err"

AllTasksEnded ==
    \A i \in DOMAIN tasks : tasks[i].pc \in {"done", "cancelled"}

\* C20 (as claimed): after a batch has failed, every other batch task still
\* gets its permit, runs its requests and returns, also once fetch_versions
\* has returned the error.
C20_OthersRunToTheirReturn == SomeBatchFailed ~> AllTasksDone

\* C20 (amended): fetch_versions cancels no task, a task is dropped only
\* once fetch_versions has returned the error and the runtime shuts down;
\* after a batch has failed every other task returns or is dropped so.
C20_OthersRunUntilShutdown ==
    /\ [](\A i \in DOMAIN tasks :
             tasks[i].pc = "cancelled" => fv_pc = "returned" /\ ret.kind = "err")
    /\ [][\A i \in DOMAIN tasks :
             (fv_pc # "returned" /\ tasks[i].pc # "done")
                => tasks'[i].pc # "cancelled"]_vars
    /\ (SomeBatchFailed ~> AllTasksEnded)

\* C20 witness: the second batch failed, fetch_versions has not returned,
\* and the first batch is still waiting for its permit or its response.
C20_FailedWhileOthersOutstanding ==
    /\ fv_pc = "join"
    /\ Len(tasks) = 2
    /\ tasks[2].pc = "done"
    /\ tasks[2].result.kind = "err"
    /\ tasks[1].pc \in {"acquire", "get", "backoff"}

(***************************************************************************)
(* Properties of the join loop of fetch_versions                           *)
(***************************************************************************)
\* The merge, in spawn order, of the results of the first n tasks.
MergedUpTo(n) ==
    LET holders(k) == {i \in 1..n : k \in DOMAIN tasks[i].result.map}
        last_of(k) == CHOOSE i \in holders(k) : \A j \in holders(k) : j <= i
    IN  [k \in UNION {DOMAIN tasks[i].result.map : i \in 1..n} |->
            tasks[last_of(k)].result.map[k]]

\* C21 (as claimed): while fetch_versions has not returned, nothing is in
\* the mapping unless every batch task has completed.
C21_MergedAfterAllCompleted ==
    (fv_pc = "join" /\ versions # EmptyMap) => AllTasksDone

\* C21 (amended): the mapping holds the results of the tasks awaited so far,
\* each of which has completed, merged in spawn order; only the join loop
\* writes it, one awaited task at a time; it is returned only when every
\* task has completed.
C21_MergedAsAwaited ==
    /\ [](/\ \A i \in 1..(next_task - 1) : tasks[i].pc = "done"
          /\ versions = MergedUpTo(next_task - 1)
          /\ (fv_pc = "returned" /\ ret.kind = "ok" /\ packages # <<>>)
                => AllTasksDone /\ ret.map = versions)
    /\ [][versions' # versions
             => fv_pc = "join" /\ next_task' = next_task + 1]_vars

\* C21 witness: the first batch's records are in the mapping while the
\* second batch is still waiting for its permit or its response.
C21_MergedWhileOthersRun ==
    /\ fv_pc = "join"
    /\ Len(tasks) = 2
    /\ next_task = 2
    /\ versions # EmptyMap
    /\ tasks[2].pc \in {"acquire", "get", "backoff"}

\* C22: the value returned is fixed by the outcomes of the batches, whatever
\* the order they completed in: the error of the failing batch of lowest
\* index, or else the merge in which a name answered by two batches keeps
\* the record of the later batch.
C22_ReturnFixedByOutcomes ==
    (fv_pc = "returned" /\ packages # <<>>) =>
        IF \E i \in DOMAIN tasks : tasks[i].result.kind = "err"
        THEN \E i \in DOMAIN tasks :
                /\ tasks[i].result.kind = "err"
                /\ \A j \in 1..(i - 1) : tasks[j].result.kind = "ok"
                /\ ret = tasks[i].result
        ELSE /\ AllTasksDone
             /\ ret = Ok(MergedResults)
             /\ \A k \in DOMAIN ret.map :
                   \E i \in DOMAIN tasks :
                      /\ k \in DOMAIN tasks[i].result.map
                      /\ ret.map[k] = tasks[i].result.map[k]
                      /\ \A j \in (i + 1)..Len(tasks) :
                            k \notin DOMAIN tasks[j].result.map

\* C22 witness: two batches answered for the same name with different
\* records and the mapping was returned.
C22_SameNameFromTwoBatches ==
    /\ fv_pc = "returned"
    /\ ret.kind = "ok"
    /\ Len(tasks) = 2
    /\ \E k \in DOMAIN tasks[1].result.map \cap DOMAIN tasks[2].result.map :
          /\ tasks[1].result.map[k] # tasks[2].result.map[k]
          /\ ret.map[k] = tasks[2].result.map[k]

(***************************************************************************)
(* Properties of the request loop of fetch_chunk                           *)
(***************************************************************************)
\* C23: a batch has at most one request outstanding: it sends a request
\* only when none is outstanding, the first on getting its permit and each
\* retry after the response to the previous one and the end of the backoff
\* sleep that followed it.
C23_RequestsOneByOne ==
    /\ [](\A i \in DOMAIN tasks :
             LET t == tasks[i] IN
             /\ t.pc = "acquire" => t.sent = 0
             /\ t.pc = "get" => t.sent = t.slept + 1
             /\ t.pc = "backoff" => t.sent = t.slept
             /\ t.pc = "done" => t.sent = t.slept + 1)
    /\ [][\A i \in DOMAIN tasks \cap DOMAIN tasks' :
             tasks'[i].sent # tasks[i].sent
                => /\ tasks[i].pc \in {"acquire", "backoff"}
                   /\ tasks'[i].sent = tasks[i].sent + 1
                   /\ tasks'[i].pc = "get"]_vars

\* C23 witness: a batch has its second request outstanding, after one
\* backoff sleep.
C23_RetryOutstanding ==
    \E i \in DOMAIN tasks :
        /\ tasks[i].pc = "get"
        /\ tasks[i].sent = 2
        /\ tasks[i].slept = 1

Succeeded == bm_pc = "done" /\ document.kind = "ok"

\* The entry of the i-th installed package when no vercmp run fails.
EntryOf(i) ==
    resolve_package(installed[i], Get(repo_versions, installed[i].name),
                    Get(aur_versions, installed[i].name), None).entry

\* C25: the packages map of a document has the names of the installed list
\* as its keys, one entry a name, each the entry of an installed package of
\* that name.
C25_OneEntryPerName ==
    Succeeded =>
        /\ DOMAIN document.packages
              = {installed[i].name : i \in DOMAIN installed}
        /\ \A k \in DOMAIN document.packages :
              \E i \in DOMAIN installed :
                 /\ installed[i].name = k
                 /\ document.packages[k] = EntryOf(i)

\* C25 witness: the installed list names two packages and the document has
\* an entry for each.
C25_TwoNames ==
    /\ Succeeded
    /\ Len(installed) = 2
    /\ installed[1].name # installed[2].name
    /\ Cardinality(DOMAIN document.packages) = 2

\* The bytes the i-th installed package adds to the total.
UpdateBytes(i) ==
    LET e == EntryOf(i) IN
    IF e.update_available /\ e.download_size_selected # None
    THEN Unwrap(e.download_size_selected) ELSE 0

RECURSIVE SumUpdateBytes(_)
SumUpdateBytes(n) == IF n = 0 THEN 0 ELSE SumUpdateBytes(n - 1) + UpdateBytes(n)

\* C26: download_size_total is the sum of the selected download sizes of
\* the installed packages with an update, an absent size counting 0, and
\* the largest u64 when the sum exceeds it.
C26_SaturatingTotal ==
    Succeeded =>
        LET sum == SumUpdateBytes(Len(installed)) IN
        document.metadata.download_size_total
            = IF sum > MaxWord THEN MaxWord ELSE sum

\* C26 witness: two updates whose sizes add up to more than the largest
\* u64.
C26_TotalAtTheMaximum ==
    /\ Succeeded
    /\ SumUpdateBytes(Len(installed)) > MaxWord
    /\ document.metadata.updates_available = 2
    /\ document.metadata.download_size_total = MaxWord

(***************************************************************************)
(* Properties of AurClient::new                                            *)
(***************************************************************************)
Floor1(n) == IF n = 0 THEN 1 ELSE n

\* C27: whenever the HTTP client can be built, new returns a client, zero
\* parameters or not; each of max_args, max_retries and
\* max_parallel_requests is the configured value, or 1 for a configured 0.
C27_ClampedNotRejected ==
    /\ constructed = "ok" =>
          /\ client.max_args = Floor1(aur_config.max_args)
          /\ client.max_retries = Floor1(aur_config.max_retries)
          /\ client.max_parallel_requests
                = Floor1(aur_config.max_parallel_requests)
          /\ client.max_args >= 1
          /\ client.max_retries >= 1
          /\ client.max_parallel_requests >= 1
    /\ constructed = "pending" => ENABLED (NewClient /\ constructed' = "ok")

\* C27 witness: a client was built from a configuration with a zero batch
\* size, a zero retry count and a parallelism above 1.
C27_BuiltFromZeros ==
    /\ constructed = "ok"
    /\ aur_config.max_args = 0
    /\ aur_config.max_retries = 0
    /\ aur_config.max_parallel_requests > 1
    /\ client.max_parallel_requests = aur_config.max_parallel_requests

(***************************************************************************)
(* Properties of the calls with an empty name list                         *)
(***************************************************************************)
\* C28: called with an empty list, query_repo_versions returns the empty
\* mapping without spawning a process, and fetch_versions returns the empty
\* mapping without a batch task, a permit taken or a request sent.
C28_EmptyListNoCall ==
    /\ query.packages = <<>> =>
          /\ query.spawned = 0
          /\ query.chunks = <<>>
          /\ query.pc \in {"call", "returned"}
          /\ query.pc = "returned" => query.ret = Ok(EmptyMap)
    /\ packages = <<>> =>
          /\ tasks = <<>>
          /\ chunks = <<>>
          /\ semaphore = 0
          /\ fv_pc \in {"entry", "returned"}
          /\ fv_pc = "returned" => ret = Ok(EmptyMap)

\* C28 witness: both calls have returned for an empty list.
C28_BothReturnedEmpty ==
    /\ query.packages = <<>>
    /\ query.pc = "returned"
    /\ packages = <<>>
    /\ fv_pc = "returned"
    /\ ret.kind = "ok"

(***************************************************************************)
(* Properties of run()                                                     *)
(***************************************************************************)
FetchCalled == run.pc = "fetch"

\* C29: fetch_versions is called only when the query of the repositories
\* is over, after it in the order of the calls, and with exactly the names
\* of the selected packages that have no record in repo_versions; while
\* the repositories are queried the remote client has not been called.
C29_RemoteAskedForTheRest ==
    /\ query.pc \in {"call", "loop"} =>
          fv_pc = "idle" /\ "fetch_versions" \notin Range(run.calls)
    /\ FetchCalled =>
          /\ query.pc \in {"idle", "returned"}
          /\ run.calls \in {<<"fetch_versions">>,
                            <<"query_repo_versions", "fetch_versions">>}
          /\ Range(packages)
                = {run.selected[i].name : i \in DOMAIN run.selected}
                  \ DOMAIN run.repo_versions
          /\ \A i, j \in DOMAIN packages : i # j => packages[i] # packages[j]
          /\ query.pc = "returned" => run.repo_versions = query.ret.map

\* C29 witness: the repositories had a record for one selected package and
\* the remote client is asked for the other one only.
C29_OnlyTheAbsentRequested ==
    /\ FetchCalled
    /\ run.calls = <<"query_repo_versions", "fetch_versions">>
    /\ run.repo_versions # EmptyMap
    /\ Len(run.selected) = 2
    /\ Len(packages) = 1

(***************************************************************************)
(* Properties of the retry decision of fetch_chunk                         *)
(***************************************************************************)
\* The batch went round its loop after its latest response.
Retried(t) == t.pc = "backoff" \/ (t.pc = "get" /\ t.sent > 1)

\* C30 (as claimed): a batch is re-sent only after a response with a
\* non-success status; a response with a 2xx status ends the loop.
C30_SuccessStatusNeverRetried ==
    \A i \in DOMAIN tasks :
        LET t == tasks[i] IN
        /\ Retried(t) => ~t.last.transport /\ ~is_success(t.last.status)
        /\ (t.sent >= 1 /\ t.pc # "get" /\ ~t.last.transport
            /\ is_success(t.last.status))
           => t.pc = "done" /\ t.result.kind \in {"ok", "err"}

\* C30 (amended): a batch is re-sent only after a response with a status
\* other than 200 OK; a response with status 200 ends the loop with its
\* results or an error.
C30_OkStatusNeverRetried ==
    \A i \in DOMAIN tasks :
        LET t == tasks[i] IN
        /\ Retried(t) => ~t.last.transport /\ t.last.status # 200
        /\ (t.sent >= 1 /\ t.pc # "get" /\ ~t.last.transport
            /\ t.last.status = 200)
           => t.pc = "done" /\ t.result.kind \in {"ok", "err"}

\* C30 witness: a batch was re-sent after a 503 and ended with the results
\* of a 200.
C30_EndedByOkAfterRetry ==
    \E i \in DOMAIN tasks :
        /\ tasks[i].pc = "done"
        /\ tasks[i].slept >= 1
        /\ tasks[i].last.status = 200
        /\ tasks[i].result.kind = "ok"

(***************************************************************************)
(* Properties of the size probe (checked under ProbeSpec)                  *)
(***************************************************************************)
\* The probe of an entry failed: transport error, non-success status, no
\* Content-Length header or one that is not the numeral of a u64.
FailingProbe(head) ==
    \/ head.transport
    \/ head.status < 200
    \/ head.status > 299
    \/ head.header = None
    \/ Unwrap(head.header) < 0
    \/ Unwrap(head.header) > MaxWord

\* The entries among the first k of es that have no explicit size but a path.
Probeable(es, k) ==
    {j \in 1..k : es[j].compressed_size = None /\ es[j].url_path # None}

\* The download size the claim gives the k-th entry of es, heads being the
\* probes in the order they were sent.
ClaimedSize(es, heads, k) ==
    IF es[k].compressed_size # None THEN es[k].compressed_size
    ELSE IF es[k].url_path = None THEN None
    ELSE LET head == heads[Cardinality(Probeable(es, k))].head
         IN  IF FailingProbe(head) THEN None ELSE head.header

\* The last entry of es that carries name.
LastOf(es, name) ==
    CHOOSE k \in DOMAIN es :
        /\ es[k].name = name
        /\ \A j \in DOMAIN es : es[j].name = name => j <= k

\* C33: a size probe is sent only for an entry without explicit download
\* size and with a relative path; once a payload is decoded the batch sends
\* no further GET and ends with Ok whatever the probes answer; every entry
\* is returned with its version, an entry with an explicit size with that
\* size and without probe, an entry whose probe failed with download_size
\* absent.
C33_ProbeNeverFailsTheBatch ==
    \A i \in DOMAIN tasks :
        LET t == tasks[i]
            es == t.last.entries
        IN  /\ \A k \in DOMAIN t.heads :
                  /\ t.heads[k].entry.compressed_size = None
                  /\ t.heads[k].entry.url_path # None
            /\ t.decoded =>
                  /\ t.pc \in {"throttle", "head", "head_throttle", "done"}
                  /\ Len(t.heads) <= Cardinality(Probeable(es, Len(es)))
                  /\ \A k \in DOMAIN t.heads :
                        \E j \in Probeable(es, Len(es)) :
                            /\ Cardinality(Probeable(es, j)) = k
                            /\ t.heads[k].entry = es[j]
            /\ t.decoded /\ t.pc = "done" =>
                  /\ t.result.kind = "ok"
                  /\ Len(t.heads) = Cardinality(Probeable(es, Len(es)))
                  /\ DOMAIN t.result.map = {es[k].name : k \in DOMAIN es}
                  /\ \A name \in DOMAIN t.result.map :
                        LET k == LastOf(es, name) IN
                        /\ t.result.map[name].version = es[k].version
                        /\ t.result.map[name].download_size =
                              ClaimedSize(es, t.heads, k)

\* C33 witness: a batch has returned Ok with an entry that carries its
\* explicit size and an entry whose probe failed, its download_size absent.
C33_FailedProbesReturned ==
    \E i \in DOMAIN tasks :
        LET t == tasks[i] IN
        /\ t.pc = "done"
        /\ t.result.kind = "ok"
        /\ \E k \in DOMAIN t.heads :
              /\ FailingProbe(t.heads[k].head)
              /\ t.result.map[t.heads[k].entry.name].download_size = None
        /\ \E name \in DOMAIN t.result.map :
              t.result.map[name].download_size = Some(1)

(***************************************************************************)
(* Properties of the admission gate with rate-limit sleeps and size probes *)
(* (checked under GateSpec)                                                *)
(***************************************************************************)
\* The batches at each place of fetch_chunk.
At(places) == {i \in DOMAIN tasks : tasks[i].pc \in places}

\* The places of a batch between its first request and the return of
\* fetch_chunk.
InFetchChunk == {"get", "backoff", "throttle", "head", "head_throttle"}

\* C31: the permits out of the gate are exactly one for every batch between
\* its first request and the return of fetch_chunk (waiting for a GET or a
\* HEAD, or asleep in a backoff or a rate-limit sleep) and none for any
\* other batch; the GETs and HEADs outstanding never exceed
\* max_parallel_requests; and no pending batch can start while
\* max_parallel_requests batches sleep in backoff.
C31_PermitHeldThroughout ==
    Started =>
        /\ semaphore >= 0
        /\ semaphore + Cardinality(At(InFetchChunk)) =
              client.max_parallel_requests
        /\ Cardinality(At({"get", "head"})) <= client.max_parallel_requests
        /\ \A i \in DOMAIN tasks :
              tasks[i].pc \in InFetchChunk => tasks[i].sent >= 1
        /\ \A i \in DOMAIN tasks :
              tasks[i].pc = "acquire" => tasks[i].sent = 0
        /\ Cardinality(At({"backoff"})) = client.max_parallel_requests =>
              \A i \in At({"acquire"}) : ~ENABLED Acquire(i)

\* C31 witness: every permit is held by a batch asleep in backoff while a
\* batch is pending, after a batch has been through a rate-limit sleep and
\* a size probe.
C31_AllPermitsAsleep ==
    /\ Cardinality(At({"backoff"})) = client.max_parallel_requests
    /\ At({"acquire"}) # {}
    /\ \E i \in DOMAIN tasks :
          tasks[i].naps >= 1 /\ tasks[i].heads # <<>>

=============================================================================
